---- MODULE Spec2Model ----
(***************************************************************************)
(* dbmate command-line entry point (main.go): one invocation of the        *)
(* process, from main() through .env loading, the action wrapper, the      *)
(* subcommand handler (with the Slack notification of `migrate`) and the   *)
(* process exit.                                                           *)
(*                                                                         *)
(* Environment-variable names and values, and the --env-vars flag, are     *)
(* sequences of one-character strings so that strings.Split and url.Parse  *)
(* are computed character by character.  Error messages and the directory  *)
(* and file flags are plain strings.                                       *)
(***************************************************************************)
EXTENDS Integers, Sequences, FiniteSets, TLC

VARIABLES pc, c, environ, db, ret, calls, posts, stdout, stderr, exitStatus

vars == <<pc, c, environ, db, ret, calls, posts, stdout, stderr, exitStatus>>

(***************************************************************************)
(* Bounds and input sets                                                   *)
(***************************************************************************)
\* longest --env-vars flag value, in characters
MaxFlagLen == 3
\* largest pending count the engine reports
MaxPending == 2

FlagChars == {"F", "B", ","}
SeqsUpTo(S, n) == UNION {[1..k -> S] : k \in 0..n}
EnvVarsValues == SeqsUpTo(FlagChars, MaxFlagLen)

\* names of the variables the modelled environment may hold
DatabaseVar == <<"D">>
WebhookVar == <<"W">>
FooVar == <<"F">>
BarVar == <<"B">>

\* values of the database variable: the empty string, paths, a scheme with
\* and without an opaque part, and strings url.Parse rejects
DatabaseURLs == { <<>>, <<"a">>, <<"a", ":">>, <<"a", ":", "1">>,
                  <<":">>, <<"1", ":">>, <<":", "a">> }
WebhookURLs == { <<>>, <<"h">> }
FooValues == { <<>>, <<"1">> }
BarValues == { <<"1">> }

EngineErrors == {"relation already exists", "connection refused"}
MigrationDirs == {"./db/migrations", "./sql"}
SchemaFiles == {"./db/schema.sql", "./schema.sql"}
MigrationNames == {"", "add_users"}
Commands == {"new", "n", "up", "create", "drop", "migrate", "rollback",
             "down", "status", "dump", "wait"}

(***************************************************************************)
(* Errors                                                                  *)
(***************************************************************************)
Nil == [kind |-> "nil", msg |-> "", code |-> 0]
NewError(m) == [kind |-> "error", msg |-> m, code |-> 0]
NewExitError(m, n) == [kind |-> "exit", msg |-> m, code |-> n]
EngineResults == {Nil} \cup {NewError(m) : m \in EngineErrors}

(***************************************************************************)
(* Process environment                                                     *)
(***************************************************************************)
\* os.LookupEnv: the empty name is never set
LookupEnv(env, key) ==
    IF key = <<>> THEN [value |-> <<>>, ok |-> FALSE]
    ELSE IF key \in DOMAIN env THEN [value |-> env[key], ok |-> TRUE]
    ELSE [value |-> <<>>, ok |-> FALSE]

\* os.Getenv: the value, or the empty string when unset
Getenv(env, key) == LookupEnv(env, key).value

EnvNames == {DatabaseVar, WebhookVar, FooVar, BarVar}
ValuesOf(n) == IF n = DatabaseVar THEN DatabaseURLs
               ELSE IF n = WebhookVar THEN WebhookURLs
               ELSE IF n = FooVar THEN FooValues
               ELSE BarValues
AllValues == UNION {ValuesOf(n) : n \in EnvNames}
\* every environment over EnvNames: each name unset, or set to one of its values
Environments ==
    UNION { {f \in [S -> AllValues] : \A n \in S : f[n] \in ValuesOf(n)} :
            S \in SUBSET EnvNames }

\* contents of the .env file in the working directory
NoDotEnv == [exists |-> FALSE, valid |-> TRUE, entries |-> <<>>]
BadDotEnv == [exists |-> TRUE, valid |-> FALSE, entries |-> <<>>]
GoodDotEnv(e) == [exists |-> TRUE, valid |-> TRUE, entries |-> e]
DotEnvFiles == { NoDotEnv, BadDotEnv, GoodDotEnv(<<>>),
                 GoodDotEnv(<< <<WebhookVar, <<"h">> >> >>),
                 GoodDotEnv(<< <<FooVar, <<"1">> >>, <<DatabaseVar, <<"a", ":">> >> >>) }

\* godotenv.Load: sets each entry of the file that the environment does not
\* already set
RECURSIVE LoadEntries(_, _)
LoadEntries(env, entries) ==
    IF entries = <<>> THEN env
    ELSE LET k == Head(entries)[1]
             v == Head(entries)[2]
             env2 == IF k \in DOMAIN env THEN env
                     ELSE [n \in DOMAIN env \cup {k} |->
                             IF n = k THEN v ELSE env[n]]
         IN LoadEntries(env2, Tail(entries))

(***************************************************************************)
(* Library conversions used by main.go                                     *)
(***************************************************************************)
\* strings.Split(s, ","): the pieces between the commas; never empty
RECURSIVE Split(_)
Split(s) ==
    IF \A i \in 1..Len(s) : s[i] # ","
    THEN <<s>>
    ELSE LET i == CHOOSE j \in 1..Len(s) :
                      s[j] = "," /\ \A k \in 1..(j - 1) : s[k] # ","
         IN <<SubSeq(s, 1, i - 1)>> \o Split(SubSeq(s, i + 1, Len(s)))

Letters == {"a", "h"}
Digits == {"1"}

\* url.getScheme: position of the colon that ends a scheme, 0 when the
\* string has no scheme, -1 for "missing protocol scheme"
RECURSIVE SchemeEnd(_, _)
SchemeEnd(rawURL, i) ==
    IF i > Len(rawURL) THEN 0
    ELSE IF rawURL[i] \in Letters THEN SchemeEnd(rawURL, i + 1)
    ELSE IF rawURL[i] \in Digits THEN
        IF i = 1 THEN 0 ELSE SchemeEnd(rawURL, i + 1)
    ELSE IF rawURL[i] = ":" THEN
        IF i = 1 THEN -1 ELSE i
    ELSE 0

\* url.Parse on strings without '/', '?', '#': scheme and opaque part, or a
\* path; an error for a missing scheme and for a colon in the first path
\* segment
URLParse(rawURL) ==
    LET e == SchemeEnd(rawURL, 1)
        rest == IF e > 0 THEN SubSeq(rawURL, e + 1, Len(rawURL)) ELSE rawURL
        scheme == IF e > 0 THEN SubSeq(rawURL, 1, e - 1) ELSE <<>>
    IN IF e = -1
       THEN [u |-> [Scheme |-> <<>>, Opaque |-> <<>>, Path |-> <<>>],
             err |-> NewError("parse: missing protocol scheme")]
       ELSE IF scheme # <<>>
       THEN [u |-> [Scheme |-> scheme, Opaque |-> rest, Path |-> <<>>],
             err |-> Nil]
       ELSE IF \E i \in 1..Len(rest) : rest[i] = ":"
       THEN [u |-> [Scheme |-> <<>>, Opaque |-> <<>>, Path |-> <<>>],
             err |-> NewError("parse: first path segment in URL cannot contain colon")]
       ELSE [u |-> [Scheme |-> <<>>, Opaque |-> <<>>, Path |-> rest],
             err |-> Nil]

\* http.Post: the transport outcomes; a non-empty URL stands for a reachable
\* endpoint, whose POST succeeds or fails, and the empty URL always fails
TransportError == NewError("Post: transport failure")
PostOutcomes(url) == IF url = <<>> THEN {TransportError}
                     ELSE {Nil, TransportError}

(***************************************************************************)
(* Command line                                                            *)
(***************************************************************************)
\* the parsed command line: subcommand, its first argument and the flags
Contexts ==
    { ctx \in [ command : Commands,
                args : MigrationNames,
                env : {DatabaseVar},
                migrations_dir : MigrationDirs,
                schema_file : SchemaFiles,
                slack_webhook_var : {WebhookVar, FooVar},
                env_vars : EnvVarsValues,
                no_dump_schema : BOOLEAN,
                wait : BOOLEAN,
                exit_code : BOOLEAN,
                quiet : BOOLEAN ] :
        \* --exit-code and --quiet are flags of `status` only
        /\ ctx.command # "status" => ~ctx.exit_code /\ ~ctx.quiet
        \* only `new` reads an argument
        /\ ctx.command \notin {"new", "n"} => ctx.args = ""
        \* --env-vars is varied for `migrate`, its only reader
        /\ ctx.command # "migrate" => ctx.env_vars = <<>> }

(***************************************************************************)
(* main.go                                                                 *)
(***************************************************************************)
\* getDatabaseURL: parse the value of the variable named by --env
getDatabaseURL(ctx, env) == URLParse(Getenv(env, ctx.env))

\* the handle before dbmate.New
NoDB == [made |-> FALSE, DatabaseURL |-> [Scheme |-> <<>>, Opaque |-> <<>>, Path |-> <<>>],
         AutoDumpSchema |-> FALSE, MigrationsDir |-> "", SchemaFile |-> "",
         WaitBefore |-> FALSE]


\* variant: AutoDumpSchema loses its negation
NewDBNoNegation(u, ctx) ==
    [made |-> TRUE, DatabaseURL |-> u,
     AutoDumpSchema |-> ctx.no_dump_schema,
     MigrationsDir |-> ctx.migrations_dir,
     SchemaFile |-> ctx.schema_file,
     WaitBefore |-> ctx.wait]

\* action: dbmate.New(u) followed by the four assignments from the flags
NewDB(u, ctx) ==
    [made |-> TRUE, DatabaseURL |-> u,
     AutoDumpSchema |-> ~ctx.no_dump_schema,
     MigrationsDir |-> ctx.migrations_dir,
     SchemaFile |-> ctx.schema_file,
     WaitBefore |-> ctx.wait]


\* variant: the error of getDatabaseURL is ignored
WrapperProceedsAlways(err) == TRUE

\* action: the wrapped function runs only when getDatabaseURL returned no error
WrapperProceeds(err) == err = Nil

\* one engine call: the operation, its arguments, the handle it ran on and
\* what it returned
Call(op, name, quiet, handle, pending, err) ==
    [op |-> op, name |-> name, quiet |-> quiet, db |-> handle,
     pending |-> pending, err |-> err]


\* variant: the notification does not look at Migrate's result
ShouldNotifyWheneverConfigured(err, webhook_env_exists) == webhook_env_exists

\* migrate: the notification is built when Migrate failed and the webhook
\* variable is set
ShouldNotify(err, webhook_env_exists) == err # Nil /\ webhook_env_exists


\* variant: the loop appends a Field for every name, set or not
RECURSIVE CollectFieldsUnchecked(_, _)
CollectFieldsUnchecked(env_vars, env) ==
    IF env_vars = <<>> THEN <<>>
    ELSE <<[Title |-> Head(env_vars), Value |-> Getenv(env, Head(env_vars))]>>
         \o CollectFieldsUnchecked(Tail(env_vars), env)

\* migrate: the loop over env_vars that appends a Field for each set variable
RECURSIVE CollectFields(_, _)
CollectFields(env_vars, env) ==
    IF env_vars = <<>> THEN <<>>
    ELSE LET env_var_name == Head(env_vars)
             env_var_exists == LookupEnv(env, env_var_name).ok
         IN (IF env_var_exists
             THEN <<[Title |-> env_var_name, Value |-> Getenv(env, env_var_name)]>>
             ELSE <<>>) \o CollectFields(Tail(env_vars), env)


\* variant: the body text carries the prefixed fallback text
NewSlackMessagePrefixedText(err, fields) ==
    [Attachments |-> <<[Fallback |-> "Migration had error: " \o err.msg,
                        Color |-> "#FF0000",
                        Pretext |-> "There was an issue running migrations on this instance.",
                        Text |-> "Migration had error: " \o err.msg,
                        Fields |-> fields]>>]

\* migrate: the SlackMessage literal
NewSlackMessage(err, fields) ==
    [Attachments |-> <<[Fallback |-> "Migration had error: " \o err.msg,
                        Color |-> "#FF0000",
                        Pretext |-> "There was an issue running migrations on this instance.",
                        Text |-> err.msg,
                        Fields |-> fields]>>]

\* json.Marshal under the struct tags of Field, SlackAttachment, SlackMessage
MarshalField(f) == [title |-> f.Title, value |-> f.Value]
MarshalAttachment(a) ==
    [color |-> a.Color, pretext |-> a.Pretext, fallback |-> a.Fallback,
     text |-> a.Text,
     fields |-> [i \in 1..Len(a.Fields) |-> MarshalField(a.Fields[i])]]
Marshal(m) ==
    [attachments |-> [i \in 1..Len(m.Attachments) |->
                        MarshalAttachment(m.Attachments[i])]]


\* variant: `_, err = http.Post(...)` assigns the outer err
MigrateReturnAssigned(err, postErr) == postErr

\* migrate: `_, err := http.Post(...)` declares a new err inside the if
\* block, so the err returned at the end is still Migrate's
MigrateReturn(err, postErr) == err


\* variant: --quiet does not force --exit-code
SetExitCodeExplicitOnly(exit_code, quiet) == exit_code

\* status: --quiet implies --exit-code
SetExitCode(exit_code, quiet) == IF quiet THEN TRUE ELSE exit_code


\* variant: the pending test is `pending >= 0`
StatusReturnNonNegative(pending, err, setExitCode) ==
    IF err # Nil THEN err
    ELSE IF pending >= 0 /\ setExitCode THEN NewExitError("", 1)
    ELSE Nil

\* status: what the action returns after db.Status
StatusReturn(pending, err, setExitCode) ==
    IF err # Nil THEN err
    ELSE IF pending > 0 /\ setExitCode THEN NewExitError("", 1)
    ELSE Nil


\* variant: `up` calls Migrate instead of CreateAndMigrate
OperationUpMigrates(command) ==
    CASE command \in {"new", "n"} -> "NewMigration"
      [] command \in {"up", "migrate"} -> "Migrate"
      [] command = "create" -> "Create"
      [] command = "drop" -> "Drop"
      [] command \in {"rollback", "down"} -> "Rollback"
      [] command = "status" -> "Status"
      [] command = "dump" -> "DumpSchema"
      [] command = "wait" -> "Wait"

\* the engine operation each subcommand delegates to
Operation(command) ==
    CASE command \in {"new", "n"} -> "NewMigration"
      [] command = "up" -> "CreateAndMigrate"
      [] command = "create" -> "Create"
      [] command = "drop" -> "Drop"
      [] command = "migrate" -> "Migrate"
      [] command \in {"rollback", "down"} -> "Rollback"
      [] command = "status" -> "Status"
      [] command = "dump" -> "DumpSchema"
      [] command = "wait" -> "Wait"


\* variant: main exits 1 after printing the error
ExitOutcomeOne(err) ==
    IF err = Nil THEN [status |-> 0, stderr |-> <<>>]
    ELSE IF err.kind = "exit"
    THEN [status |-> err.code,
          stderr |-> IF err.msg = "" THEN <<>> ELSE <<err.msg>>]
    ELSE [status |-> 1, stderr |-> <<"Error: " \o err.msg>>]

\* main: app.Run exits through cli.HandleExitCoder for an exit error; any
\* other error is printed and the process exits 2
ExitOutcome(err) ==
    IF err = Nil THEN [status |-> 0, stderr |-> <<>>]
    ELSE IF err.kind = "exit"
    THEN [status |-> err.code,
          stderr |-> IF err.msg = "" THEN <<>> ELSE <<err.msg>>]
    ELSE [status |-> 2, stderr |-> <<"Error: " \o err.msg>>]

\* loadDotEnv: log.Fatalf prints and exits 1
DotEnvFatal == [status |-> 1, stderr |-> <<"Error loading .env file">>]

(***************************************************************************)
(* The invocation                                                          *)
(***************************************************************************)
Init ==
    /\ pc = "main"
    /\ c \in Contexts
    /\ environ \in Environments
    /\ db = NoDB
    /\ ret = Nil
    /\ calls = <<>>
    /\ posts = <<>>
    /\ stdout = <<>>
    /\ stderr = <<>>
    /\ exitStatus = 0

\* main: loadDotEnv
LoadDotEnv ==
    /\ pc = "main"
    /\ \E file \in DotEnvFiles :
         IF ~file.exists
         THEN /\ pc' = "run"
              /\ UNCHANGED <<environ, stderr, exitStatus>>
         ELSE IF ~file.valid
         THEN /\ pc' = "exited"
              /\ stderr' = DotEnvFatal.stderr
              /\ exitStatus' = DotEnvFatal.status
              /\ UNCHANGED environ
         ELSE /\ pc' = "run"
              /\ environ' = LoadEntries(environ, file.entries)
              /\ UNCHANGED <<stderr, exitStatus>>
    /\ UNCHANGED <<c, db, ret, calls, posts, stdout>>

\* action: resolve the database URL and build the handle
ActionWrapper ==
    /\ pc = "run"
    /\ LET r == getDatabaseURL(c, environ)
       IN IF WrapperProceeds(r.err)
          THEN /\ db' = NewDB(r.u, c)
               /\ pc' = "f"
               /\ UNCHANGED ret
          ELSE /\ ret' = r.err
               /\ pc' = "ret"
               /\ UNCHANGED db
    /\ UNCHANGED <<c, environ, calls, posts, stdout, stderr, exitStatus>>

\* a handler that only returns what its engine operation returned
Delegate(names, name) ==
    /\ pc = "f"
    /\ c.command \in names
    /\ \E err \in EngineResults :
         /\ calls' = Append(calls, Call(Operation(c.command), name, FALSE, db, 0, err))
         /\ ret' = err
    /\ pc' = "ret"
    /\ UNCHANGED <<c, environ, db, posts, stdout, stderr, exitStatus>>

CmdNew == Delegate({"new", "n"}, c.args)
CmdUp == Delegate({"up"}, "")
CmdCreate == Delegate({"create"}, "")
CmdDrop == Delegate({"drop"}, "")
CmdRollback == Delegate({"rollback", "down"}, "")
CmdDump == Delegate({"dump"}, "")
CmdWait == Delegate({"wait"}, "")

CmdMigrate ==
    /\ pc = "f"
    /\ c.command = "migrate"
    /\ \E err \in EngineResults :
         /\ calls' = Append(calls, Call(Operation(c.command), "", FALSE, db, 0, err))
         /\ LET webhook_env_exists == LookupEnv(environ, c.slack_webhook_var).ok
            IN IF ShouldNotify(err, webhook_env_exists)
               THEN LET env_vars == Split(c.env_vars)
                        fields == CollectFields(env_vars, environ)
                        slack_message == NewSlackMessage(err, fields)
                        url == Getenv(environ, c.slack_webhook_var)
                        body == Marshal(slack_message)
                    IN \E postErr \in PostOutcomes(url) :
                         /\ posts' = Append(posts,
                                [url |-> url, contentType |-> "application/json",
                                 body |-> body, after |-> Len(calls'),
                                 err |-> postErr])
                         /\ stdout' = stdout
                                \o <<[text |-> "env-vars split", arg |-> env_vars]>>
                                \o (IF postErr # Nil
                                    THEN <<[text |-> "could not send to webhook",
                                            arg |-> <<url>>]>>
                                    ELSE <<>>)
                         /\ ret' = MigrateReturn(err, postErr)
               ELSE /\ ret' = err
                    /\ UNCHANGED <<posts, stdout>>
    /\ pc' = "ret"
    /\ UNCHANGED <<c, environ, db, stderr, exitStatus>>

CmdStatus ==
    /\ pc = "f"
    /\ c.command = "status"
    /\ LET setExitCode == SetExitCode(c.exit_code, c.quiet)
           quiet == c.quiet
       IN \E pending \in (-1)..MaxPending, err \in EngineResults :
            /\ calls' = Append(calls, Call(Operation(c.command), "", quiet, db, pending, err))
            /\ ret' = StatusReturn(pending, err, setExitCode)
    /\ pc' = "ret"
    /\ UNCHANGED <<c, environ, db, posts, stdout, stderr, exitStatus>>

\* main: the process exits with the outcome of app.Run
MainExit ==
    /\ pc = "ret"
    /\ LET o == ExitOutcome(ret)
       IN /\ exitStatus' = o.status
          /\ stderr' = o.stderr
    /\ pc' = "exited"
    /\ UNCHANGED <<c, environ, db, ret, calls, posts, stdout>>

Next ==
    \/ LoadDotEnv
    \/ ActionWrapper
    \/ CmdNew
    \/ CmdUp
    \/ CmdCreate
    \/ CmdDrop
    \/ CmdMigrate
    \/ CmdRollback
    \/ CmdStatus
    \/ CmdDump
    \/ CmdWait
    \/ MainExit

Spec == Init /\ [][Next]_vars

(***************************************************************************)
(* Properties                                                              *)
(***************************************************************************)
Returned == pc \in {"ret", "exited"}
Exited == pc = "exited"
\* the process was ended by log.Fatalf in loadDotEnv
DotEnvFailed == Exited /\ stderr = <<"Error loading .env file">>
\* the webhook variable named by the flag is set in the environment
WebhookSet == c.slack_webhook_var # <<>> /\ c.slack_webhook_var \in DOMAIN environ
\* the exit-code behaviour of `status` is active
ExitCodeActive == c.exit_code \/ c.quiet
\* the JSON attachment of the i-th POST
Attachment(i) == posts[i].body.attachments[1]

\* C1: the error the migrate action returns, and with it the exit status and
\* the message on standard error, is exactly what Migrate() returned,
\* whether or not a POST was made and whether or not it failed.
C1_MigrateErrorPreserved ==
    (c.command = "migrate" /\ Returned /\ calls # <<>>) =>
        /\ ret = calls[1].err
        /\ Exited =>
             IF calls[1].err = Nil
             THEN exitStatus = 0 /\ stderr = <<>>
             ELSE exitStatus = 2 /\ stderr = <<"Error: " \o calls[1].err.msg>>

\* a failed migrate whose POST went through at the transport level
C1_Witness ==
    /\ Exited /\ c.command = "migrate"
    /\ Len(posts) = 1 /\ posts[1].err = Nil
    /\ ret = NewError("relation already exists")
    /\ exitStatus = 2

\* C2: a POST is issued if and only if the subcommand is migrate, Migrate()
\* returned an error and the webhook variable is set; then exactly one POST
\* is issued, after Migrate() returned.
C2_PostIffFailedMigrateWithWebhook ==
    /\ Len(posts) <= 1
    /\ ~Returned => posts = <<>>
    /\ Returned =>
         (Len(posts) = 1 <=>
            /\ c.command = "migrate"
            /\ calls # <<>>
            /\ calls[1].err # Nil
            /\ WebhookSet)
    /\ posts # <<>> =>
         /\ Len(calls) = 1
         /\ calls[1].op = "Migrate"
         /\ posts[1].after = 1
         /\ posts[1].url = environ[c.slack_webhook_var]
         /\ posts[1].contentType = "application/json"

\* a failed migrate with the webhook variable set has posted once
C2_Witness ==
    /\ Exited /\ c.command = "migrate"
    /\ calls # <<>> /\ calls[1].err # Nil
    /\ WebhookSet
    /\ Len(posts) = 1

\* the pieces of s between its commas
RECURSIVE Join(_)
Join(names) ==
    IF Len(names) = 1 THEN names[1]
    ELSE names[1] \o <<",">> \o Join(Tail(names))
IsCommaSplit(names, s) ==
    /\ Len(names) >= 1
    /\ \A i \in 1..Len(names) : \A j \in 1..Len(names[i]) : names[i][j] # ","
    /\ Join(names) = s
\* the (name, value) pairs of the names that are set, in the order of names
SetPairs(names) ==
    LET set == SelectSeq(names, LAMBDA n : n \in DOMAIN environ)
    IN [i \in 1..Len(set) |-> [title |-> set[i], value |-> environ[set[i]]]]

\* C3: the fields of a notification are the names of the comma-split
\* --env-vars value that are set in the environment, in the order of the
\* flag, each with its value; unset names add nothing and a blank flag
\* gives no fields.
C3_FieldsAreSetEnvVars ==
    \A i \in 1..Len(posts) :
        /\ stdout # <<>>
        /\ stdout[1].text = "env-vars split"
        /\ IsCommaSplit(stdout[1].arg, c.env_vars)
        /\ Attachment(i).fields = SetPairs(stdout[1].arg)
        /\ c.env_vars = <<>> => Attachment(i).fields = <<>>

\* --env-vars=F,B with only F=1 set gives exactly the entry (F, 1)
C3_Witness ==
    /\ Len(posts) = 1
    /\ c.env_vars = <<"F", ",", "B">>
    /\ FooVar \in DOMAIN environ /\ environ[FooVar] = <<"1">>
    /\ BarVar \notin DOMAIN environ
    /\ Attachment(1).fields = <<[title |-> <<"F">>, value |-> <<"1">>]>>

\* C4 as stated: fallback and body text both equal the migration error's
\* message, with the fixed colour and note.
C4_FallbackEqualsErrorText ==
    \A i \in 1..Len(posts) :
        /\ Attachment(i).fallback = calls[1].err.msg
        /\ Attachment(i).text = calls[1].err.msg
        /\ Attachment(i).fallback = Attachment(i).text
        /\ Attachment(i).color = "#FF0000"
        /\ Attachment(i).pretext = "There was an issue running migrations on this instance."

\* C4: in every notification the body text is the migration error's
\* message, the fallback text is that message prefixed with
\* "Migration had error: ", the colour is #FF0000 and the note is the
\* fixed migration-failure note.
C4_MessageCarriesError ==
    \A i \in 1..Len(posts) :
        /\ Len(posts[i].body.attachments) = 1
        /\ Attachment(i).text = calls[1].err.msg
        /\ Attachment(i).fallback = "Migration had error: " \o calls[1].err.msg
        /\ Attachment(i).color = "#FF0000"
        /\ Attachment(i).pretext = "There was an issue running migrations on this instance."

\* a notification for the error "connection refused"
C4_Witness ==
    /\ Len(posts) = 1
    /\ calls[1].err = NewError("connection refused")
    /\ Attachment(1).text = "connection refused"
    /\ Attachment(1).fallback = "Migration had error: connection refused"

\* C5: status ends with exit status 1 and no message if and only if
\* Status() returned no error, pending > 0 and exit-code behaviour is
\* active; an error of Status() is the terminal error whatever the count
\* and flags; otherwise the action succeeds.
C5_StatusExit ==
    (c.command = "status" /\ Exited) =>
        /\ (exitStatus = 1 /\ stderr = <<>>) <=>
             /\ calls # <<>>
             /\ calls[1].err = Nil
             /\ calls[1].pending > 0
             /\ ExitCodeActive
        /\ calls # <<>> =>
             /\ calls[1].err # Nil =>
                  /\ ret = calls[1].err
                  /\ exitStatus = 2
                  /\ stderr = <<"Error: " \o calls[1].err.msg>>
             /\ (calls[1].err = Nil /\ (calls[1].pending <= 0 \/ ~ExitCodeActive)) =>
                  /\ ret = Nil
                  /\ exitStatus = 0
                  /\ stderr = <<>>

\* status --exit-code with pending migrations has exited 1 without a message
C5_Witness ==
    /\ Exited /\ c.command = "status"
    /\ c.exit_code /\ ~c.quiet
    /\ calls # <<>> /\ calls[1].err = Nil /\ calls[1].pending = 2
    /\ exitStatus = 1 /\ stderr = <<>>

\* the outcome of `status --quiet --exit-code` for an engine result
OutcomeWithBothFlags(pending, err) ==
    ExitOutcome(StatusReturn(pending, err, SetExitCode(TRUE, TRUE)))

\* C6: status --quiet without --exit-code ends as status --quiet
\* --exit-code does for the same engine result, and Status is called with
\* quiet = true.
C6_QuietImpliesExitCode ==
    (c.command = "status" /\ c.quiet /\ Exited /\ calls # <<>>) =>
        /\ calls[1].quiet = TRUE
        /\ exitStatus = OutcomeWithBothFlags(calls[1].pending, calls[1].err).status
        /\ stderr = OutcomeWithBothFlags(calls[1].pending, calls[1].err).stderr
        /\ (calls[1].err = Nil /\ calls[1].pending > 0) => exitStatus = 1

\* status --quiet alone, with a pending migration, has exited 1
C6_Witness ==
    /\ Exited /\ c.command = "status"
    /\ c.quiet /\ ~c.exit_code
    /\ calls # <<>> /\ calls[1].err = Nil /\ calls[1].pending = 1
    /\ calls[1].quiet
    /\ exitStatus = 1

\* the error the requested operation or the URL parse returned
TerminalError ==
    IF calls # <<>> THEN calls[1].err
    ELSE getDatabaseURL(c, environ).err
\* status ran, found pending migrations and exit-code behaviour is active
PendingExit ==
    /\ c.command = "status"
    /\ calls # <<>>
    /\ calls[1].err = Nil
    /\ calls[1].pending > 0
    /\ ExitCodeActive
\* the three exit outcomes of an invocation that reached a subcommand
ThreeOutcomes ==
    /\ exitStatus \in {0, 1, 2}
    /\ exitStatus = 1 <=> PendingExit
    /\ exitStatus = 0 <=> (TerminalError = Nil /\ ~PendingExit)
    /\ exitStatus = 2 <=> TerminalError # Nil
    /\ exitStatus = 2 => stderr = <<"Error: " \o TerminalError.msg>>
    /\ exitStatus # 2 => stderr = <<>>

\* C7 as stated: every invocation ends with 0, with 1 (only from status
\* with pending migrations under exit-code behaviour) or with 2 and the
\* unchanged error; exit status 1 never comes from another subcommand.
C7_EveryExitIsOneOfThree ==
    Exited =>
        /\ ThreeOutcomes
        /\ exitStatus = 1 => c.command = "status"

\* C7: every invocation whose .env file, if any, loads ends with 0, with 1
\* (only from status with pending migrations under exit-code behaviour) or
\* with 2 and the unchanged error; an invocation whose .env file exists
\* and does not load ends with exit status 1 and a log message before any
\* subcommand runs, whatever the subcommand.
C7_ExitOutcomes ==
    Exited =>
        IF DotEnvFailed
        THEN exitStatus = 1 /\ calls = <<>> /\ posts = <<>> /\ ~db.made
        ELSE /\ ThreeOutcomes
             /\ exitStatus = 1 => c.command = "status"

\* a failed `drop` has exited 2 with the engine's error
C7_Witness ==
    /\ Exited /\ c.command = "drop"
    /\ calls # <<>> /\ calls[1].err = NewError("connection refused")
    /\ exitStatus = 2
    /\ stderr = <<"Error: connection refused">>

\* C8: when the value of the variable named by --env does not parse, the
\* parse error is the terminal error, no handle is built, no engine
\* operation runs and nothing is posted; an unset variable parses and the
\* requested operation runs.
C8_ParseErrorAborts ==
    (pc # "main" /\ pc # "run" /\ ~DotEnvFailed) =>
        /\ getDatabaseURL(c, environ).err # Nil =>
             /\ ~db.made
             /\ calls = <<>>
             /\ posts = <<>>
             /\ ret = getDatabaseURL(c, environ).err
             /\ Exited => /\ exitStatus = 2
                          /\ stderr = <<"Error: " \o ret.msg>>
        /\ c.env \notin DOMAIN environ =>
             /\ db.made
             /\ db.DatabaseURL = [Scheme |-> <<>>, Opaque |-> <<>>, Path |-> <<>>]
             /\ Returned => Len(calls) = 1

\* DATABASE_URL=":" has ended the invocation with the parse error
C8_Witness ==
    /\ Exited
    /\ DatabaseVar \in DOMAIN environ /\ environ[DatabaseVar] = <<":">>
    /\ ret = NewError("parse: missing protocol scheme")
    /\ calls = <<>>
    /\ exitStatus = 2

\* the engine operation the spec assigns to each subcommand
MappedOperation ==
    [cmd \in Commands |->
        IF cmd = "new" \/ cmd = "n" THEN "NewMigration"
        ELSE IF cmd = "up" THEN "CreateAndMigrate"
        ELSE IF cmd = "create" THEN "Create"
        ELSE IF cmd = "drop" THEN "Drop"
        ELSE IF cmd = "migrate" THEN "Migrate"
        ELSE IF cmd = "rollback" \/ cmd = "down" THEN "Rollback"
        ELSE IF cmd = "status" THEN "Status"
        ELSE IF cmd = "dump" THEN "DumpSchema"
        ELSE "Wait"]

\* C9: once the configuration resolved, exactly one engine operation is
\* invoked, once, and it is the one mapped from the subcommand, with the
\* migration name for new and the quiet flag for status.
C9_ExactlyOneMappedOperation ==
    /\ Len(calls) <= 1
    /\ ~Returned => calls = <<>>
    /\ (Returned /\ db.made) =>
         /\ Len(calls) = 1
         /\ calls[1].op = MappedOperation[c.command]
         /\ calls[1].op = "NewMigration" => calls[1].name = c.args
         /\ calls[1].op = "Status" => calls[1].quiet = c.quiet

\* `up` has invoked CreateAndMigrate
C9_Witness ==
    /\ Exited /\ c.command = "up"
    /\ Len(calls) = 1 /\ calls[1].op = "CreateAndMigrate"

\* the handle's four knobs equal the flags
KnobsFromFlags(handle) ==
    /\ handle.made
    /\ handle.AutoDumpSchema = ~c.no_dump_schema
    /\ handle.MigrationsDir = c.migrations_dir
    /\ handle.SchemaFile = c.schema_file
    /\ handle.WaitBefore = c.wait

\* C10: every engine operation is invoked on a handle whose four knobs were
\* already set from the flags, and the knobs keep those values afterwards.
C10_KnobsSetBeforeOperation ==
    /\ \A i \in 1..Len(calls) : KnobsFromFlags(calls[i].db)
    /\ calls # <<>> => db = calls[1].db
    /\ db.made => KnobsFromFlags(db)

\* an operation has run with --no-dump-schema and --wait given
C10_Witness ==
    /\ Exited /\ Len(calls) = 1
    /\ c.no_dump_schema /\ c.wait
    /\ c.migrations_dir = "./sql"
    /\ calls[1].db.AutoDumpSchema = FALSE
    /\ calls[1].db.WaitBefore = TRUE
    /\ calls[1].db.MigrationsDir = "./sql"

====
